---------------------------- MODULE Spec2Model ----------------------------
(***************************************************************************)
(* A model of the vibedb/pg_guard Postgres proxy (src/src/main.rs): the    *)
(* simple-query framer, the policy analyzer with its count-query deriver,  *)
(* the row-count gate, the error frame encoder and the bidirectional relay *)
(* loop of one client session.                                             *)
(*                                                                         *)
(* Text is modelled as the program holds it: a sequence of bytes.  The     *)
(* model's alphabet is ASCII plus the byte 255, which occurs in no valid   *)
(* UTF-8 encoding; on ASCII, Rust's to_uppercase / to_lowercase / trim     *)
(* are the byte-wise operations defined below.                             *)
(***************************************************************************)
EXTENDS Integers, Sequences, FiniteSets, TLC

VARIABLES
    config,        \* ProxyConfig: [max_rows, honeytokens]
    state,         \* position of handle_bidirectional_proxy
    clientReads,   \* chunks delivered by client_stream.read, in order
    dbReads,       \* chunks delivered by db_stream.read, in order
    dbWrites,      \* db_stream.write_all calls, in order
    clientWrites,  \* client_stream.write_all calls, in order
    log,           \* the [ALLOW] / [BLOCK] / error! lines of the relay
    pending,       \* the client chunk held while check_row_count is awaited
    probes,        \* the probes answered on the side connection, in order
    lastIo,        \* the socket or probe result that the last step consumed
    query,         \* analyzer harness: the query text under analysis
    action,        \* analyzer harness: the QueryAction returned for it
    errorText,     \* encoder harness: the message to be framed
    response,      \* encoder harness: the bytes returned for it
    sessions,      \* accept loop: the spawned handle_client tasks
    listening,     \* accept loop: main is still in its loop
    backend        \* the database behind both connections of a session

vars ==
    << config, state, clientReads, dbReads, dbWrites, clientWrites, log,
       pending, probes, lastIo, query, action, errorText, response, sessions,
       listening, backend >>

\* what the relay loop of one session never touches
outsideVars ==
    << errorText, response, sessions, listening, backend >>

relayVars ==
    << state, clientReads, dbReads, dbWrites, clientWrites, log, pending,
       probes, lastIo >>

---------------------------------------------------------------------------
(* Bounds of the model.                                                    *)

\* client_stream reads per session
MaxClientReads == 2
\* db_stream reads per session
MaxDbReads == 1
\* statements per generated query text
MaxStatements == 2

---------------------------------------------------------------------------
(* Byte strings.                                                           *)

\* char::is_whitespace on ASCII: space, \t, \n, \x0B, \x0C, \r
IsWhitespace(b) ==
    b \in {32, 9, 10, 11, 12, 13}

ToUpperByte(b) ==
    IF b >= 97 /\ b <= 122 THEN b - 32 ELSE b

ToLowerByte(b) ==
    IF b >= 65 /\ b <= 90 THEN b + 32 ELSE b

to_uppercase(s) ==
    [i \in 1..Len(s) |-> ToUpperByte(s[i])]

to_lowercase(s) ==
    [i \in 1..Len(s) |-> ToLowerByte(s[i])]

\* pat occurs in s at 0-based byte offset off
MatchesAt(s, pat, off) ==
    /\ off + Len(pat) <= Len(s)
    /\ \A j \in 1..Len(pat) : s[off + j] = pat[j]

\* the 0-based offsets at which pat occurs in s
Occurrences(s, pat) ==
    {off \in 0..Len(s) : MatchesAt(s, pat, off)}

\* str::contains
contains(s, pat) ==
    Occurrences(s, pat) # {}

\* str::find: the first offset, or -1 for None
find(s, pat) ==
    IF Occurrences(s, pat) = {} THEN -1
    ELSE CHOOSE off \in Occurrences(s, pat) :
             \A o \in Occurrences(s, pat) : off <= o

\* &s[off..]
SliceFrom(s, off) ==
    SubSeq(s, off + 1, Len(s))

\* &s[..off]
SliceTo(s, off) ==
    SubSeq(s, 1, off)

\* str::trim_start
trim_start(s) ==
    LET keep == {i \in 1..Len(s) : ~IsWhitespace(s[i])}
    IN  IF keep = {} THEN << >>
        ELSE SubSeq(s, CHOOSE i \in keep : \A k \in keep : i <= k, Len(s))

\* str::trim_end
trim_end(s) ==
    LET keep == {i \in 1..Len(s) : ~IsWhitespace(s[i])}
    IN  IF keep = {} THEN << >>
        ELSE SubSeq(s, 1, CHOOSE i \in keep : \A k \in keep : i >= k)

\* str::trim
trim(s) ==
    trim_end(trim_start(s))

\* str::trim_matches(c)
trim_matches(s, c) ==
    LET keep == {i \in 1..Len(s) : s[i] # c}
    IN  IF keep = {} THEN << >>
        ELSE SubSeq(s, CHOOSE i \in keep : \A k \in keep : i <= k,
                       CHOOSE i \in keep : \A k \in keep : i >= k)

\* str::split_whitespace().next(): the first whitespace-free run, or << >>
\* standing for None when there is none
FirstWord(s) ==
    LET t   == trim_start(s)
        ws  == {i \in 1..Len(t) : IsWhitespace(t[i])}
    IN  IF ws = {} THEN t
        ELSE SubSeq(t, 1, (CHOOSE i \in ws : \A k \in ws : i <= k) - 1)

\* str::splitn(2, pat): one part when pat does not occur, else the text
\* before and the text after its first occurrence
splitn2(s, pat) ==
    IF find(s, pat) = -1 THEN << s >>
    ELSE << SliceTo(s, find(s, pat)),
            SliceFrom(s, find(s, pat) + Len(pat)) >>

\* the decimal digits of a natural number
RECURSIVE Digits(_)
Digits(n) ==
    IF n < 10 THEN << 48 + n >>
    ELSE Digits(n \div 10) \o << 48 + (n % 10) >>

\* format!("{}", n) for an i64
Display(n) ==
    IF n < 0 THEN << 45 >> \o Digits(-n) ELSE Digits(n)

\* String::from_utf8(..).is_ok() over the model's alphabet
Utf8Valid(bytes) ==
    \A i \in 1..Len(bytes) : bytes[i] < 128

---------------------------------------------------------------------------
(* String constants of the program.                                        *)

\* "DROP"
KwDrop ==
    << 68, 82, 79, 80 >>

\* "TABLE"
KwTable ==
    << 84, 65, 66, 76, 69 >>

\* "TRUNCATE"
KwTruncate ==
    << 84, 82, 85, 78, 67, 65, 84, 69 >>

\* "DELETE"
KwDelete ==
    << 68, 69, 76, 69, 84, 69 >>

\* "FROM"
KwFrom ==
    << 70, 82, 79, 77 >>

\* "WHERE"
KwWhere ==
    << 87, 72, 69, 82, 69 >>

\* "UPDATE"
KwUpdate ==
    << 85, 80, 68, 65, 84, 69 >>

\* "SET"
KwSet ==
    << 83, 69, 84 >>

\* "SELECT"
KwSelect ==
    << 83, 69, 76, 69, 67, 84 >>

\* " WHERE "
WherePattern ==
    << 32, 87, 72, 69, 82, 69, 32 >>

\* "DELETE FROM"
PrefixDeleteFrom ==
    << 68, 69, 76, 69, 84, 69, 32, 70, 82, 79, 77 >>

\* "UPDATE"
PrefixUpdate ==
    << 85, 80, 68, 65, 84, 69 >>

\* "unknown"
Unknown ==
    << 117, 110, 107, 110, 111, 119, 110 >>

\* "SELECT COUNT(*) FROM "
SelectCountFrom ==
    << 83, 69, 76, 69, 67, 84, 32, 67, 79, 85, 78, 84, 40, 42, 41, 32, 70, 82, 79, 77, 32 >>

\* "honeytoken table access detected"
ReasonHoneytoken ==
    << 104, 111, 110, 101, 121, 116, 111, 107, 101, 110, 32, 116, 97, 98, 108, 101, 32, 97, 99, 99, 101, 115, 115, 32, 100, 101, 116, 101, 99, 116, 101, 100 >>

\* "DROP statement blocked"
ReasonDrop ==
    << 68, 82, 79, 80, 32, 115, 116, 97, 116, 101, 109, 101, 110, 116, 32, 98, 108, 111, 99, 107, 101, 100 >>

\* "TRUNCATE statement blocked"
ReasonTruncate ==
    << 84, 82, 85, 78, 67, 65, 84, 69, 32, 115, 116, 97, 116, 101, 109, 101, 110, 116, 32, 98, 108, 111, 99, 107, 101, 100 >>

\* "DELETE without WHERE clause blocked"
ReasonDelete ==
    << 68, 69, 76, 69, 84, 69, 32, 119, 105, 116, 104, 111, 117, 116, 32, 87, 72, 69, 82, 69, 32, 99, 108, 97, 117, 115, 101, 32, 98, 108, 111, 99, 107, 101, 100 >>

\* "Internal error checking row count"
ReasonInternal ==
    << 73, 110, 116, 101, 114, 110, 97, 108, 32, 101, 114, 114, 111, 114, 32, 99, 104, 101, 99, 107, 105, 110, 103, 32, 114, 111, 119, 32, 99, 111, 117, 110, 116 >>

\* "would affect "
WouldAffect ==
    << 119, 111, 117, 108, 100, 32, 97, 102, 102, 101, 99, 116, 32 >>

\* " rows (limit "
RowsLimit ==
    << 32, 114, 111, 119, 115, 32, 40, 108, 105, 109, 105, 116, 32 >>

\* ")"
CloseParen ==
    << 41 >>

\* "SERROR\x00C42000\x00M"
ErrorFieldsHead ==
    << 83, 69, 82, 82, 79, 82, 0, 67, 52, 50, 48, 48, 48, 0, 77 >>

\* "_vibedb_canary"
DefaultHoneytoken ==
    << 95, 118, 105, 98, 101, 100, 98, 95, 99, 97, 110, 97, 114, 121 >>
\* "_VIBEDB_CANARY"
UpperHoneytoken ==
    << 95, 86, 73, 66, 69, 68, 66, 95, 67, 65, 78, 65, 82, 89 >>

\* "DROP TABLE t"
StDropTable ==
    << 68, 82, 79, 80, 32, 84, 65, 66, 76, 69, 32, 116 >>

\* "TRUNCATE TABLE t"
StTruncate ==
    << 84, 82, 85, 78, 67, 65, 84, 69, 32, 84, 65, 66, 76, 69, 32, 116 >>

\* "DELETE FROM t"
StDelete ==
    << 68, 69, 76, 69, 84, 69, 32, 70, 82, 79, 77, 32, 116 >>

\* "DELETE FROM t WHERE x"
StDeleteWhere ==
    << 68, 69, 76, 69, 84, 69, 32, 70, 82, 79, 77, 32, 116, 32, 87, 72, 69, 82, 69, 32, 120 >>

\* "delete from t where x"
StDeleteWhereLower ==
    << 100, 101, 108, 101, 116, 101, 32, 102, 114, 111, 109, 32, 116, 32, 119, 104, 101, 114, 101, 32, 120 >>

\* "DELETE FROM t\nWHERE x"
StDeleteNlWhere ==
    << 68, 69, 76, 69, 84, 69, 32, 70, 82, 79, 77, 32, 116, 10, 87, 72, 69, 82, 69, 32, 120 >>

\* "UPDATE t SET y=1"
StUpdate ==
    << 85, 80, 68, 65, 84, 69, 32, 116, 32, 83, 69, 84, 32, 121, 61, 49 >>

\* "UPDATE t SET y=1 WHERE x"
StUpdateWhere ==
    << 85, 80, 68, 65, 84, 69, 32, 116, 32, 83, 69, 84, 32, 121, 61, 49, 32, 87, 72, 69, 82, 69, 32, 120 >>

\* "update t set y=1 where x"
StUpdateWhereLower ==
    << 117, 112, 100, 97, 116, 101, 32, 116, 32, 115, 101, 116, 32, 121, 61, 49, 32, 119, 104, 101, 114, 101, 32, 120 >>

\* "SELECT y FROM t"
StSelect ==
    << 83, 69, 76, 69, 67, 84, 32, 121, 32, 70, 82, 79, 77, 32, 116 >>

\* "SELECT y FROM u WHERE z"
StSelectWhere ==
    << 83, 69, 76, 69, 67, 84, 32, 121, 32, 70, 82, 79, 77, 32, 117, 32, 87, 72, 69, 82, 69, 32, 122 >>

\* "SELECT y FROM _Vibedb_Canary"
StSelectCanary ==
    << 83, 69, 76, 69, 67, 84, 32, 121, 32, 70, 82, 79, 77, 32, 95, 86, 105, 98, 101, 100, 98, 95, 67, 97, 110, 97, 114, 121 >>

\* "UPDATE _vibedb_canary SET y=1 WHERE x"
StUpdateCanary ==
    << 85, 80, 68, 65, 84, 69, 32, 95, 118, 105, 98, 101, 100, 98, 95, 99, 97, 110, 97, 114, 121, 32, 83, 69, 84, 32, 121, 61, 49, 32, 87, 72, 69, 82, 69, 32, 120 >>

\* "FROBNICATE _VIBEDB_CANARY"
StGarbageCanary ==
    << 70, 82, 79, 66, 78, 73, 67, 65, 84, 69, 32, 95, 86, 73, 66, 69, 68, 66, 95, 67, 65, 78, 65, 82, 89 >>

\* "BEGIN; LOCK TABLE t"
StLockTable ==
    << 66, 69, 71, 73, 78, 59, 32, 76, 79, 67, 75, 32, 84, 65, 66, 76, 69,
       32, 116 >>

\* "COMMIT"
StCommit ==
    << 67, 79, 77, 77, 73, 84 >>

\* "SELECT y FROM t WHERE x"
StSelectFiltered ==
    << 83, 69, 76, 69, 67, 84, 32, 121, 32, 70, 82, 79, 77, 32, 116, 32,
       87, 72, 69, 82, 69, 32, 120 >>

\* "; "
Sep ==
    << 59, 32 >>

---------------------------------------------------------------------------
(* QueryAction (main.rs 93-97).                                            *)

Allow ==
    [tag |-> "Allow", arg |-> << >>]

Block(reason) ==
    [tag |-> "Block", arg |-> reason]

CheckRows(count_query) ==
    [tag |-> "CheckRows", arg |-> count_query]

---------------------------------------------------------------------------
(* SqlParser::parse_sql with PostgreSqlDialect, as far as analyze_query    *)
(* looks at its result: whether the text parses, the kind of every         *)
(* statement, and whether a statement carries a selection (a parsed WHERE  *)
(* predicate).  The grammar is the part of SQL the generated texts use:    *)
(*     DROP TABLE n | TRUNCATE [TABLE] n | DELETE FROM n [WHERE e]         *)
(*   | UPDATE n SET e [WHERE e] | SELECT e FROM n [WHERE e]                *)
(* statements separated by ';', keywords in any letter case, any           *)
(* whitespace between tokens.                                              *)

\* "BEGIN"
KwBegin ==
    << 66, 69, 71, 73, 78 >>
\* "COMMIT"
KwCommit ==
    << 67, 79, 77, 77, 73, 84 >>
\* "LOCK"
KwLock ==
    << 76, 79, 67, 75 >>

Keywords ==
    {KwDrop, KwTable, KwTruncate, KwDelete, KwFrom, KwWhere, KwUpdate,
     KwSet, KwSelect, KwBegin, KwCommit, KwLock}

IsKeyword(tok, kw) ==
    to_uppercase(tok) = kw

IsName(tok) ==
    /\ tok # << 59 >>
    /\ to_uppercase(tok) \notin Keywords

\* the tokens of a text: maximal runs free of whitespace and ';', and
\* every ';' by itself
RECURSIVE Tokens(_)
Tokens(s) ==
    LET t == trim_start(s)
        stops == {i \in 1..Len(t) : IsWhitespace(t[i]) \/ t[i] = 59}
        stop == IF stops = {} THEN Len(t) + 1
                ELSE CHOOSE i \in stops : \A k \in stops : i <= k
    IN  IF t = << >> THEN << >>
        ELSE IF t[1] = 59 THEN << << 59 >> >> \o Tokens(SliceFrom(t, 1))
        ELSE << SubSeq(t, 1, stop - 1) >> \o Tokens(SliceFrom(t, stop - 1))

\* the token sequence cut at every ';', empty pieces dropped
RECURSIVE SplitStatements(_)
SplitStatements(toks) ==
    LET semis == {i \in 1..Len(toks) : toks[i] = << 59 >>}
        semi == IF semis = {} THEN Len(toks) + 1
                ELSE CHOOSE i \in semis : \A k \in semis : i <= k
        head == SubSeq(toks, 1, semi - 1)
        rest == IF semi > Len(toks) THEN << >>
                ELSE SplitStatements(SubSeq(toks, semi + 1, Len(toks)))
    IN  IF toks = << >> THEN << >>
        ELSE IF head = << >> THEN rest
        ELSE << head >> \o rest

\* a nonempty run of names
IsExpr(toks) ==
    /\ Len(toks) >= 1
    /\ \A i \in 1..Len(toks) : IsName(toks[i])

\* [WHERE e] from token k on: 0 for a malformed tail, 1 for no WHERE, 2
\* for a WHERE with its predicate
WhereTail(toks, k) ==
    IF k > Len(toks) THEN 1
    ELSE IF IsKeyword(toks[k], KwWhere)
            /\ IsExpr(SubSeq(toks, k + 1, Len(toks)))
         THEN 2
    ELSE 0

NoStatement ==
    [ok |-> FALSE, kind |-> "None", selection |-> FALSE]

Stmt(kind, tail) ==
    IF tail = 0 THEN NoStatement
    ELSE [ok |-> TRUE, kind |-> kind, selection |-> (tail = 2)]

\* the position of the first token that is the keyword kw, or 0
KeywordPos(toks, kw) ==
    LET at == {i \in 1..Len(toks) : IsKeyword(toks[i], kw)}
    IN  IF at = {} THEN 0 ELSE CHOOSE i \in at : \A k \in at : i <= k

ParseStatement(toks) ==
    LET n == Len(toks)
        setAt == KeywordPos(toks, KwSet)
        fromAt == KeywordPos(toks, KwFrom)
        whereAt == IF KeywordPos(toks, KwWhere) = 0 THEN n + 1
                   ELSE KeywordPos(toks, KwWhere)
    IN  IF n = 0 THEN NoStatement
        ELSE IF IsKeyword(toks[1], KwDrop) THEN
            IF n = 3 /\ IsKeyword(toks[2], KwTable) /\ IsName(toks[3])
            THEN Stmt("Drop", 1) ELSE NoStatement
        ELSE IF IsKeyword(toks[1], KwTruncate) THEN
            IF \/ n = 3 /\ IsKeyword(toks[2], KwTable) /\ IsName(toks[3])
               \/ n = 2 /\ IsName(toks[2])
            THEN Stmt("Truncate", 1) ELSE NoStatement
        ELSE IF IsKeyword(toks[1], KwDelete) THEN
            IF n >= 3 /\ IsKeyword(toks[2], KwFrom) /\ IsName(toks[3])
            THEN Stmt("Delete", WhereTail(toks, 4)) ELSE NoStatement
        ELSE IF IsKeyword(toks[1], KwUpdate) THEN
            IF /\ n >= 4 /\ IsName(toks[2]) /\ setAt = 3
               /\ IsExpr(SubSeq(toks, 4, whereAt - 1))
            THEN Stmt("Update", WhereTail(toks, whereAt)) ELSE NoStatement
        ELSE IF IsKeyword(toks[1], KwSelect) THEN
            IF /\ n >= 4 /\ fromAt >= 3
               /\ IsExpr(SubSeq(toks, 2, fromAt - 1))
               /\ fromAt + 1 <= n /\ IsName(toks[fromAt + 1])
            THEN Stmt("Query", WhereTail(toks, fromAt + 2)) ELSE NoStatement
        ELSE IF IsKeyword(toks[1], KwBegin) THEN
            IF n = 1 THEN Stmt("StartTransaction", 1) ELSE NoStatement
        ELSE IF IsKeyword(toks[1], KwCommit) THEN
            IF n = 1 THEN Stmt("Commit", 1) ELSE NoStatement
        ELSE IF IsKeyword(toks[1], KwLock) THEN
            IF n = 3 /\ IsKeyword(toks[2], KwTable) /\ IsName(toks[3])
            THEN Stmt("LockTables", 1) ELSE NoStatement
        ELSE NoStatement

\* Result<Vec<Statement>>: ok is FALSE for Err(_)
parse_sql(text) ==
    LET parts == SplitStatements(Tokens(text))
        stmts == [i \in 1..Len(parts) |-> ParseStatement(parts[i])]
    IN  [ok  |-> \A i \in 1..Len(stmts) : stmts[i].ok,
         ast |-> stmts]

---------------------------------------------------------------------------
(* QueryAnalyzer (main.rs 99-200).                                         *)

extract_table_name_from_query(q, prefix) ==
    LET upper_query  == to_uppercase(q)
        upper_prefix == to_uppercase(prefix)
        start_pos    == find(upper_query, upper_prefix)
        after_prefix == SliceFrom(q, start_pos + Len(prefix))
        table_part   == trim_start(after_prefix)
        first        == FirstWord(table_part)
        table_name   == trim_matches(IF first = << >> THEN Unknown ELSE first,
                                     59)
    IN  IF start_pos # -1 THEN table_name ELSE Unknown

\* the WHERE clause both derivers compute (main.rs 153-162, 168-177)
where_clause(q) ==
    IF contains(to_uppercase(q), WherePattern)
    THEN LET parts == splitn2(q, WherePattern)
         IN  IF Len(parts) = 2 THEN WherePattern \o parts[2] ELSE << >>
    ELSE << >>

create_count_query_from_delete(delete_query) ==
    SelectCountFrom
        \o extract_table_name_from_query(delete_query, PrefixDeleteFrom)
        \o where_clause(delete_query)

create_count_query_from_update(update_query) ==
    SelectCountFrom
        \o extract_table_name_from_query(update_query, PrefixUpdate)
        \o where_clause(update_query)

\* the mutant of HoneytokenHit that compares the text as written
HoneytokenHitExact(q, honeytokens) ==
    \E i \in 1..Len(honeytokens) : contains(q, honeytokens[i])

\* the honeytoken loop (main.rs 108-113)
HoneytokenHit(q, honeytokens) ==
    \E i \in 1..Len(honeytokens) :
        contains(to_lowercase(q), to_lowercase(honeytokens[i]))

\* the mutant of DeleteHasWhereText that looks for " WHERE " as written
DeleteHasWhereTextExact(q) ==
    contains(q, WherePattern)

\* the textual WHERE test of the Delete arm (main.rs 131)
DeleteHasWhereText(q) ==
    contains(to_uppercase(q), WherePattern)

\* the mutant of UpdateHasSelection that gates every UPDATE
UpdateAlwaysSelected(statement) ==
    TRUE

\* selection.is_some() of the Update arm (main.rs 140)
UpdateHasSelection(statement) ==
    statement.selection

\* what one statement of the loop at main.rs 121-146 does: a returned
\* QueryAction, or [tag |-> "Next"] when the loop goes on
StatementVerdict(q, statement) ==
    IF statement.kind = "Drop" THEN Block(ReasonDrop)
    ELSE IF statement.kind = "Truncate" THEN Block(ReasonTruncate)
    ELSE IF statement.kind = "Delete" THEN
        IF ~DeleteHasWhereText(q) THEN Block(ReasonDelete)
        ELSE CheckRows(create_count_query_from_delete(q))
    ELSE IF statement.kind = "Update" /\ UpdateHasSelection(statement) THEN
        CheckRows(create_count_query_from_update(q))
    ELSE [tag |-> "Next", arg |-> << >>]

\* the for loop over the parsed statements: the first returned verdict
LoopVerdict(q, ast) ==
    LET hits == {i \in 1..Len(ast) : StatementVerdict(q, ast[i]).tag # "Next"}
    IN  IF hits = {} THEN Allow
        ELSE StatementVerdict(q, ast[CHOOSE i \in hits : \A k \in hits : i <= k])

analyze_query(q, honeytokens) ==
    IF HoneytokenHit(q, honeytokens) THEN Block(ReasonHoneytoken)
    ELSE IF ~parse_sql(q).ok THEN Allow
    ELSE LoopVerdict(q, parse_sql(q).ast)

---------------------------------------------------------------------------
(* The framer and the error frame encoder (main.rs 362-401).               *)

None ==
    [some |-> FALSE, val |-> << >>]

Some(v) ==
    [some |-> TRUE, val |-> v]

\* iter().position(|&b| b == 0): the 0-based offset of the first NUL, or -1
null_position(query_bytes) ==
    find(query_bytes, << 0 >>)

\* the mutant of extract_query_from_message that does not look at the tag
extract_query_any_tag(data) ==
    IF Len(data) > 5
    THEN LET query_bytes == SliceFrom(data, 5)
             null_pos    == null_position(query_bytes)
         IN  IF null_pos # -1 /\ Utf8Valid(SliceTo(query_bytes, null_pos))
             THEN Some(trim(SliceTo(query_bytes, null_pos)))
             ELSE None
    ELSE None

extract_query_from_message(data) ==
    IF Len(data) > 5 /\ data[1] = 81
    THEN LET query_bytes == SliceFrom(data, 5)
             null_pos    == null_position(query_bytes)
         IN  IF null_pos # -1 /\ Utf8Valid(SliceTo(query_bytes, null_pos))
             THEN Some(trim(SliceTo(query_bytes, null_pos)))
             ELSE None
    ELSE None

\* u32::to_be_bytes; every length of the model is far below 2^32, where
\* the cast `as u32` is the identity
to_be_bytes(u) ==
    << u \div 16777216, (u \div 65536) % 256, (u \div 256) % 256, u % 256 >>

\* the mutant of create_simple_error_response whose length field does
\* not count itself
create_error_response_short_length(message) ==
    LET error_fields == ErrorFieldsHead \o message \o << 0, 0 >>
        msg_len      == Len(error_fields)
    IN  << 69 >> \o to_be_bytes(msg_len) \o error_fields
            \o << 90 >> \o to_be_bytes(5) \o << 73 >>

create_simple_error_response(message) ==
    LET error_fields == ErrorFieldsHead \o message \o << 0, 0 >>
        msg_len      == Len(error_fields) + 4
    IN  << 69 >> \o to_be_bytes(msg_len) \o error_fields
            \o << 90 >> \o to_be_bytes(5) \o << 73 >>

---------------------------------------------------------------------------
(* The row-count gate (main.rs 292-319, 375-383).                          *)

\* what client.query hands back: an error, or the rows of the probe, each
\* row its first column
QueryErr ==
    [ok |-> FALSE, rows |-> << >>]

QueryOk(rows) ==
    [ok |-> TRUE, rows |-> rows]

\* the mutant of check_row_count that reads a failed probe as no rows
check_row_count_or_zero(res) ==
    IF res.ok /\ Len(res.rows) > 0 THEN [ok |-> TRUE, count |-> res.rows[1]]
    ELSE [ok |-> TRUE, count |-> 0]

\* Result<i64> of check_row_count
check_row_count(res) ==
    IF ~res.ok THEN [ok |-> FALSE, count |-> 0]
    ELSE IF Len(res.rows) > 0 THEN [ok |-> TRUE, count |-> res.rows[1]]
    ELSE [ok |-> TRUE, count |-> 0]

\* the mutant of RowCountExceeds that also rejects a count at the limit
RowCountAtLeast(row_count, max_rows) ==
    row_count >= max_rows

\* the comparison at main.rs 295
RowCountExceeds(row_count, max_rows) ==
    row_count > max_rows

\* the reason formatted at main.rs 296
RowLimitReason(row_count, max_rows) ==
    WouldAffect \o Display(row_count) \o RowsLimit \o Display(max_rows)
        \o CloseParen

---------------------------------------------------------------------------
(* Inputs: configurations, query texts, chunks.                            *)

\* LimitsConfig::max_rows of AppConfig::default
DefaultMaxRows == 500
\* a --max-rows override
SmallMaxRows == 1

\* "secrets"
OtherHoneytoken ==
    << 115, 101, 99, 114, 101, 116, 115 >>

HoneytokenChoices ==
    { << >>, << DefaultHoneytoken >>, << OtherHoneytoken, UpperHoneytoken >> }

\* the configurations analyze_query is run under; it reads the
\* honeytokens alone
Configs ==
    [max_rows : {DefaultMaxRows}, honeytokens : HoneytokenChoices]

StatementTexts ==
    { StDropTable, StTruncate, StDelete, StDeleteWhere, StDeleteWhereLower,
      StDeleteNlWhere, StUpdate, StUpdateWhere, StUpdateWhereLower,
      StSelect, StSelectWhere, StUpdateCanary, StGarbageCanary }

\* the texts of n statements joined by "; "
RECURSIVE TextsOf(_)
TextsOf(n) ==
    IF n = 1 THEN StatementTexts
    ELSE {t \o Sep \o s : t \in TextsOf(n - 1), s \in StatementTexts}

QueryTexts ==
    UNION {TextsOf(n) : n \in 1..MaxStatements}

---------------------------------------------------------------------------
(* The analyzer harness: analyze_query applied to one drawn query text.    *)

NoAction ==
    [tag |-> "None", arg |-> << >>]

NoPending ==
    [read |-> 0, data |-> << >>, query |-> << >>, count_query |-> << >>]

NoIo ==
    [op |-> "none", res |-> "none", fwd |-> "none", reply |-> "none"]

RelayIdle ==
    /\ state = "Relaying"
    /\ clientReads = << >>
    /\ dbReads = << >>
    /\ dbWrites = << >>
    /\ clientWrites = << >>
    /\ log = << >>
    /\ pending = NoPending
    /\ probes = << >>
    /\ lastIo = NoIo

\* no frame requested, no session accepted, an idle database
OutsideIdle ==
    /\ errorText = << >>
    /\ response = << >>
    /\ sessions = << >>
    /\ listening = FALSE
    /\ backend = [locked |-> FALSE, unread |-> 0]

InitAnalyzer ==
    /\ config \in Configs
    /\ query \in QueryTexts
    /\ action = NoAction
    /\ RelayIdle
    /\ OutsideIdle

Analyze ==
    /\ action = NoAction
    /\ action' = analyze_query(query, config.honeytokens)
    /\ UNCHANGED << config, query >>
    /\ UNCHANGED relayVars
    /\ UNCHANGED outsideVars

NextAnalyzer ==
    Analyze

SpecAnalyzer ==
    InitAnalyzer /\ [][NextAnalyzer]_vars

---------------------------------------------------------------------------
(* The encoder harness: create_simple_error_response applied to one        *)
(* drawn message.                                                          *)

\* bytes of the longest generated message; the frame length needs a
\* second byte from 234 bytes of message on
MaxMessageLen == 240

\* the counts put into generated row-limit reasons
ReasonCounts ==
    {0, 1, 9, 10, 501, 65536, 2147483647}

\* the messages the relay passes to the encoder (main.rs 286, 296, 314),
\* and filler messages of every length up to MaxMessageLen
ErrorTexts ==
    {ReasonHoneytoken, ReasonDrop, ReasonTruncate, ReasonDelete,
     ReasonInternal}
        \cup {RowLimitReason(c, m) : c \in ReasonCounts, m \in {1, 500}}
        \cup {[i \in 1..n |-> 120] : n \in 0..MaxMessageLen}

InitEncoder ==
    /\ config = [max_rows |-> DefaultMaxRows,
                 honeytokens |-> << DefaultHoneytoken >>]
    /\ query = << >>
    /\ action = NoAction
    /\ RelayIdle
    /\ errorText \in ErrorTexts
    /\ response = << >>
    /\ sessions = << >>
    /\ listening = FALSE
    /\ backend = [locked |-> FALSE, unread |-> 0]

Encode ==
    /\ response = << >>
    /\ response' = create_simple_error_response(errorText)
    /\ UNCHANGED << config, query, action, errorText, sessions, listening,
                    backend >>
    /\ UNCHANGED relayVars

NextEncoder ==
    Encode

SpecEncoder ==
    InitEncoder /\ [][NextEncoder]_vars

---------------------------------------------------------------------------
(* The relay loop of one session (main.rs 255-360).                        *)

\* a simple-query message as a client's driver frames it
QueryMessage(text) ==
    << 81 >> \o to_be_bytes(Len(text) + 5) \o text \o << 0 >>

\* the query texts the relay's chunks carry; the padded one has
\* whitespace for the framer's trim
PaddedDrop ==
    << 32 >> \o StDropTable \o << 10 >>

RelayQueries ==
    { StSelect, PaddedDrop, StDeleteWhere, StSelectCanary }

\* Terminate: a five-byte message
TerminateMessage ==
    << 88, 0, 0, 0, 4 >>

\* an extended-protocol Parse message carrying a statement text
ParseMessage(text) ==
    << 80 >> \o to_be_bytes(Len(text) + 8) \o << 0 >> \o text \o << 0, 0, 0 >>

ClientChunks ==
    {QueryMessage(q) : q \in RelayQueries}
    \cup { \* two messages delivered by one read
           QueryMessage(StSelect) \o QueryMessage(StDropTable),
           QueryMessage(StDropTable) \o TerminateMessage,
           \* one message delivered by two reads
           SliceTo(QueryMessage(StDropTable), 5),
           SliceFrom(QueryMessage(StDropTable), 5),
           \* a query message cut before its NUL
           SliceTo(QueryMessage(StDropTable), Len(StDropTable) + 5),
           \* a query text that is not UTF-8
           QueryMessage(<< 255 >> \o StDropTable),
           ParseMessage(StDropTable) }

\* the chunks of a client that works inside a transaction: it takes a
\* table lock, commits, selects, deletes with a filter, and sends an
\* unfiltered DELETE together with a filtered SELECT
BackendChunks ==
    {QueryMessage(q) : q \in {StLockTable, StCommit, StSelect, StDeleteWhere,
                              StDelete \o Sep \o StSelectFiltered}}

\* the framer and the analyzer on every chunk, under every honeytoken
\* list: extract_query_from_message(data) and, for an extracted query,
\* analyze_query of it
Framed ==
    [data \in ClientChunks \cup BackendChunks |->
        extract_query_from_message(data)]

Verdict ==
    [data \in ClientChunks \cup BackendChunks,
     honeytokens \in HoneytokenChoices |->
        IF Framed[data].some
        THEN analyze_query(Framed[data].val, honeytokens)
        ELSE NoAction]

\* a response of the database, cut in two by the transport
\* CommandComplete "DROP TABLE" then ReadyForQuery
ResponseMessage ==
    << 67, 0, 0, 0, 15, 68, 82, 79, 80, 32, 84, 65, 66, 76, 69, 0,
       90, 0, 0, 0, 5, 73 >>

DbChunks ==
    { SliceTo(ResponseMessage, 7), SliceFrom(ResponseMessage, 7) }

\* what the probe can answer under a configuration
ProbeResults(cfg) ==
    { QueryErr, QueryOk(<< >>) }
    \cup {QueryOk(<< c >>) : c \in {0, cfg.max_rows, cfg.max_rows + 1}}

\* AppConfig::default (main.rs 66-84)
DefaultConfig ==
    [max_rows |-> DefaultMaxRows, honeytokens |-> << DefaultHoneytoken >>]

\* the configurations a session runs under: the default one, and one
\* with a --max-rows override and two honeytokens
RelayConfigs ==
    { DefaultConfig,
      [max_rows |-> SmallMaxRows,
       honeytokens |-> << OtherHoneytoken, UpperHoneytoken >>] }

Init ==
    /\ config \in RelayConfigs
    /\ query = << >>
    /\ action = NoAction
    /\ RelayIdle
    /\ OutsideIdle

\* the mutant of AfterReject that leaves the loop: `break` for `continue`
AfterRejectBreak ==
    "Closed"

\* the session after a rejection: `continue` (main.rs 290, 302, 318)
AfterReject ==
    "Relaying"

\* the mutant of ForwardUpstream that logs a failed write and goes on
ForwardUpstreamNoBreak(read, data, ok) ==
    /\ dbWrites' = Append(dbWrites, [read |-> read, bytes |-> data, ok |-> ok])
    /\ state' = "Relaying"
    /\ UNCHANGED clientWrites

\* the mutant of ForwardUpstream that writes one byte more than was read
\* of the zero-initialised buffer
ForwardUpstreamPastRead(read, data, ok) ==
    /\ dbWrites' = Append(dbWrites,
           [read |-> read, bytes |-> data \o << 0 >>, ok |-> ok])
    /\ state' = IF ok THEN "Relaying" ELSE "Closed"
    /\ UNCHANGED clientWrites

\* db_stream.write_all(data) and the break on its failure
\* (main.rs 279-282, 306-309, 325-328)
ForwardUpstream(read, data, ok) ==
    /\ dbWrites' = Append(dbWrites, [read |-> read, bytes |-> data, ok |-> ok])
    /\ state' = IF ok THEN "Relaying" ELSE "Closed"
    /\ UNCHANGED clientWrites

\* create_simple_error_response and client_stream.write_all of it; its
\* failure is logged and the loop continues (main.rs 286-290, 298-302,
\* 314-318)
Reject(read, reason, ok) ==
    /\ clientWrites' = Append(clientWrites,
           [kind |-> "error", read |-> read,
            bytes |-> create_simple_error_response(reason), ok |-> ok])
    /\ state' = AfterReject
    /\ UNCHANGED dbWrites

LogLine(level, read, q, detail) ==
    [level |-> level, read |-> read, query |-> q, detail |-> detail]

\* client_stream.read returns Ok(0) (main.rs 269)
ClientEof ==
    /\ state = "Relaying"
    /\ state' = "Closed"
    /\ lastIo' = [op |-> "client_read", res |-> "eof", fwd |-> "none",
                  reply |-> "none"]
    /\ UNCHANGED << config, clientReads, dbReads, dbWrites, clientWrites, log,
                    pending, probes, query, action >>

\* client_stream.read returns Err (main.rs 331-334)
ClientReadError ==
    /\ state = "Relaying"
    /\ state' = "Closed"
    /\ lastIo' = [op |-> "client_read", res |-> "err", fwd |-> "none",
                  reply |-> "none"]
    /\ log' = Append(log, LogLine("ERROR", 0, << >>, "client read"))
    /\ UNCHANGED << config, clientReads, dbReads, dbWrites, clientWrites,
                    pending, probes, query, action >>

\* client_stream.read returns Ok(n), n > 0 (main.rs 270-330), up to the
\* await of check_row_count
ClientData(data, wok) ==
    LET read == Len(clientReads) + 1
        q    == Framed[data]
        act  == Verdict[data, config.honeytokens]
        w    == IF wok THEN "ok" ELSE "err"
    IN  /\ state = "Relaying"
        /\ Len(clientReads) < MaxClientReads
        /\ clientReads' = Append(clientReads, data)
        /\ IF ~q.some THEN
               /\ ForwardUpstream(read, data, wok)
               /\ log' = IF wok THEN log
                         ELSE Append(log, LogLine("ERROR", read, << >>, "forward"))
               /\ lastIo' = [op |-> "client_read", res |-> "data", fwd |-> w,
                             reply |-> "none"]
               /\ UNCHANGED pending
           ELSE IF act.tag = "Allow" THEN
               /\ ForwardUpstream(read, data, wok)
               /\ log' = Append(log, LogLine("ALLOW", read, q.val, << >>))
               /\ lastIo' = [op |-> "client_read", res |-> "data", fwd |-> w,
                             reply |-> "none"]
               /\ UNCHANGED pending
           ELSE IF act.tag = "Block" THEN
               /\ Reject(read, act.arg, wok)
               /\ log' = Append(log, LogLine("BLOCK", read, q.val, act.arg))
               /\ lastIo' = [op |-> "client_read", res |-> "data",
                             fwd |-> "none", reply |-> w]
               /\ UNCHANGED pending
           ELSE
               /\ state' = "Probing"
               /\ pending' = [read |-> read, data |-> data, query |-> q.val,
                              count_query |-> act.arg]
               /\ lastIo' = [op |-> "client_read", res |-> "data",
                             fwd |-> "none", reply |-> "none"]
               /\ UNCHANGED << dbWrites, clientWrites, log >>
        /\ UNCHANGED << config, dbReads, probes, query, action >>

\* check_row_count returns and the CheckRows arm finishes (main.rs 293-320)
ProbeReturn(res, wok) ==
    LET r == check_row_count(res)
        w == IF wok THEN "ok" ELSE "err"
        reason == RowLimitReason(r.count, config.max_rows)
    IN  /\ state = "Probing"
        /\ pending' = NoPending
        /\ probes' = Append(probes, [read |-> pending.read,
                                     sql |-> pending.count_query, res |-> res])
        /\ IF ~r.ok THEN
               /\ Reject(pending.read, ReasonInternal, wok)
               /\ log' = Append(log, LogLine("ERROR", pending.read,
                                             pending.query, "row count"))
               /\ lastIo' = [op |-> "probe", res |-> "err", fwd |-> "none",
                             reply |-> w]
           ELSE IF RowCountExceeds(r.count, config.max_rows) THEN
               /\ Reject(pending.read, reason, wok)
               /\ log' = Append(log, LogLine("BLOCK", pending.read,
                                             pending.query, reason))
               /\ lastIo' = [op |-> "probe", res |-> "ok", fwd |-> "none",
                             reply |-> w]
           ELSE
               /\ ForwardUpstream(pending.read, pending.data, wok)
               /\ log' = Append(log, LogLine("ALLOW", pending.read,
                                             pending.query, Display(r.count)))
               /\ lastIo' = [op |-> "probe", res |-> "ok", fwd |-> w,
                             reply |-> "none"]
        /\ UNCHANGED << config, clientReads, dbReads, query, action >>

\* db_stream.read returns Ok(0) (main.rs 341)
DbEof ==
    /\ state = "Relaying"
    /\ state' = "Closed"
    /\ lastIo' = [op |-> "db_read", res |-> "eof", fwd |-> "none",
                  reply |-> "none"]
    /\ UNCHANGED << config, clientReads, dbReads, dbWrites, clientWrites, log,
                    pending, probes, query, action >>

\* db_stream.read returns Err (main.rs 349-352)
DbReadError ==
    /\ state = "Relaying"
    /\ state' = "Closed"
    /\ lastIo' = [op |-> "db_read", res |-> "err", fwd |-> "none",
                  reply |-> "none"]
    /\ log' = Append(log, LogLine("ERROR", 0, << >>, "database read"))
    /\ UNCHANGED << config, clientReads, dbReads, dbWrites, clientWrites,
                    pending, probes, query, action >>

\* the mutant of DbData that writes one byte more than was read of the
\* zero-initialised buffer
DbDataPastRead(data, wok) ==
    /\ state = "Relaying"
    /\ Len(dbReads) < MaxDbReads
    /\ dbReads' = Append(dbReads, data)
    /\ clientWrites' = Append(clientWrites,
           [kind |-> "forward", read |-> Len(dbReads) + 1,
            bytes |-> data \o << 0 >>, ok |-> wok])
    /\ state' = IF wok THEN "Relaying" ELSE "Closed"
    /\ log' = IF wok THEN log
              ELSE Append(log, LogLine("ERROR", 0, << >>, "forward to client"))
    /\ lastIo' = [op |-> "db_read", res |-> "data",
                  fwd |-> IF wok THEN "ok" ELSE "err", reply |-> "none"]
    /\ UNCHANGED << config, clientReads, dbWrites, pending, probes, query,
                    action >>

\* db_stream.read returns Ok(n), n > 0 (main.rs 342-348)
DbData(data, wok) ==
    /\ state = "Relaying"
    /\ Len(dbReads) < MaxDbReads
    /\ dbReads' = Append(dbReads, data)
    /\ clientWrites' = Append(clientWrites,
           [kind |-> "forward", read |-> Len(dbReads) + 1, bytes |-> data,
            ok |-> wok])
    /\ state' = IF wok THEN "Relaying" ELSE "Closed"
    /\ log' = IF wok THEN log
              ELSE Append(log, LogLine("ERROR", 0, << >>, "forward to client"))
    /\ lastIo' = [op |-> "db_read", res |-> "data",
                  fwd |-> IF wok THEN "ok" ELSE "err", reply |-> "none"]
    /\ UNCHANGED << config, clientReads, dbWrites, pending, probes, query,
                    action >>

Next ==
    \/ ClientEof /\ UNCHANGED outsideVars
    \/ ClientReadError /\ UNCHANGED outsideVars
    \/ \E data \in ClientChunks, wok \in BOOLEAN :
           ClientData(data, wok) /\ UNCHANGED outsideVars
    \/ \E res \in ProbeResults(config), wok \in BOOLEAN :
           ProbeReturn(res, wok) /\ UNCHANGED outsideVars
    \/ DbEof /\ UNCHANGED outsideVars
    \/ DbReadError /\ UNCHANGED outsideVars
    \/ \E data \in DbChunks, wok \in BOOLEAN :
           DbData(data, wok) /\ UNCHANGED outsideVars

Spec ==
    Init /\ [][Next]_vars

---------------------------------------------------------------------------
(* The relay loop of one session together with the database behind it.     *)
(* The database is PostgreSQL: it is reached over the raw connection       *)
(* (main.rs 226-232), which carries the client's statements, and over the  *)
(* side connection (main.rs 217), which carries the probes.                *)

harnessVars ==
    << errorText, response, sessions, listening >>

\* the database after it received a chunk on the raw connection: LOCK
\* TABLE inside a transaction holds an ACCESS EXCLUSIVE lock on t until
\* the transaction ends, and every chunk is answered
Execute(b, bytes) ==
    [locked |-> IF bytes = QueryMessage(StLockTable) THEN TRUE
                ELSE IF bytes = QueryMessage(StCommit) THEN FALSE
                ELSE b.locked,
     unread |-> b.unread + 1]

\* the database after a step of the relay: it has executed what the step
\* wrote to db_stream, if the write succeeded
AfterUpstreamWrite ==
    IF Len(dbWrites') > Len(dbWrites) /\ dbWrites'[Len(dbWrites')].ok
    THEN Execute(backend, dbWrites'[Len(dbWrites')].bytes)
    ELSE backend

InitBackend ==
    /\ config = DefaultConfig
    /\ query = << >>
    /\ action = NoAction
    /\ RelayIdle
    /\ OutsideIdle

BackendClientData(data, wok) ==
    /\ ClientData(data, wok)
    /\ backend' = AfterUpstreamWrite
    /\ UNCHANGED harnessVars

\* client.query(count_query) is answered: the SELECT of the probe needs
\* an ACCESS SHARE lock on the table, which it waits for while another
\* connection holds ACCESS EXCLUSIVE
BackendProbeAnswer(res, wok) ==
    /\ ~backend.locked
    /\ ProbeReturn(res, wok)
    /\ backend' = AfterUpstreamWrite
    /\ UNCHANGED harnessVars

\* client.query(count_query) returns Err because the side connection
\* is lost
BackendProbeLost(wok) ==
    /\ ProbeReturn(QueryErr, wok)
    /\ UNCHANGED backend
    /\ UNCHANGED harnessVars

\* db_stream.read returns a chunk the database has sent
BackendDbData(data, wok) ==
    /\ backend.unread > 0
    /\ DbData(data, wok)
    /\ backend' = [backend EXCEPT !.unread = @ - 1]
    /\ UNCHANGED harnessVars

ProbeAnswered ==
    \E res \in ProbeResults(config), wok \in BOOLEAN :
        BackendProbeAnswer(res, wok)

DbRelayed ==
    \E data \in DbChunks, wok \in BOOLEAN : BackendDbData(data, wok)

NextBackend ==
    \/ ClientEof /\ UNCHANGED outsideVars
    \/ ClientReadError /\ UNCHANGED outsideVars
    \/ \E data \in BackendChunks, wok \in BOOLEAN :
           BackendClientData(data, wok)
    \/ ProbeAnswered
    \/ \E wok \in BOOLEAN : BackendProbeLost(wok)
    \/ DbEof /\ UNCHANGED outsideVars
    \/ DbReadError /\ UNCHANGED outsideVars
    \/ DbRelayed

\* the relay task is polled whenever one of its futures is ready, and the
\* database answers every probe it is not made to wait on
SpecBackend ==
    /\ InitBackend
    /\ [][NextBackend]_vars
    /\ WF_vars(ProbeAnswered)
    /\ WF_vars(DbRelayed)

---------------------------------------------------------------------------
(* The accept loop of main and the handle_client tasks it spawns           *)
(* (main.rs 480-490, 213-237). A task's relay loop is the one modelled     *)
(* above; here it is reduced to its positions and the number of client     *)
(* chunks it has settled.                                                  *)

\* client connections accepted over the run
MaxSessions == 3
\* client chunks a session settles
MaxSettled == 1

\* a task that still runs
Live(s) ==
    s.pc \in {"Accepted", "SideConnected", "Relaying", "Probing"}

\* everything but the accept loop and its tasks; config is the
\* ProxyConfig inside the Arc every task shares
outsideListener ==
    << config, query, action, errorText, response, backend >>

InitListener ==
    /\ config \in RelayConfigs
    /\ query = << >>
    /\ action = NoAction
    /\ RelayIdle
    /\ errorText = << >>
    /\ response = << >>
    /\ backend = [locked |-> FALSE, unread |-> 0]
    /\ sessions = << >>
    /\ listening = TRUE

\* listener.accept() returns a connection and the task is spawned
\* (main.rs 481-488)
Accept ==
    /\ listening
    /\ Len(sessions) < MaxSessions
    /\ sessions' = Append(sessions, [pc |-> "Accepted", settled |-> 0])
    /\ UNCHANGED listening
    /\ UNCHANGED outsideListener
    /\ UNCHANGED relayVars

\* listener.accept() returns Err: `?` returns from main and the runtime
\* drops every task (main.rs 481)
AcceptError ==
    /\ listening
    /\ listening' = FALSE
    /\ sessions' = [i \in 1..Len(sessions) |->
                       IF Live(sessions[i])
                       THEN [sessions[i] EXCEPT !.pc = "Aborted"]
                       ELSE sessions[i]]
    /\ UNCHANGED outsideListener
    /\ UNCHANGED relayVars

\* the mutant of ListenerAfterTaskError in which the error of a session
\* leaves the accept loop: handle_client awaited in the loop with `?`
ListenerStopsOnTaskError ==
    FALSE

\* the accept loop after a task returned Err: the spawned task logs the
\* error and ends (main.rs 484-488)
ListenerAfterTaskError ==
    listening

\* a step of task i alone, from position from to position to
TaskStep(i, from, to, settles) ==
    /\ i \in 1..Len(sessions)
    /\ sessions[i].pc = from
    /\ sessions' = [sessions EXCEPT ![i] =
                       [pc |-> to, settled |-> @.settled + settles]]
    /\ UNCHANGED outsideListener
    /\ UNCHANGED relayVars

\* tokio_postgres::connect for the side connection (main.rs 217)
SideConnect(i, ok) ==
    /\ TaskStep(i, "Accepted", IF ok THEN "SideConnected" ELSE "Failed", 0)
    /\ listening' = IF ok THEN listening ELSE ListenerAfterTaskError

\* connect_to_database for the raw connection (main.rs 226-232)
RawConnect(i, ok) ==
    /\ TaskStep(i, "SideConnected", IF ok THEN "Relaying" ELSE "Failed", 0)
    /\ listening' = IF ok THEN listening ELSE ListenerAfterTaskError

\* the relay loop forwards or rejects a client chunk without a probe
SettleChunk(i) ==
    /\ i \in 1..Len(sessions)
    /\ sessions[i].settled < MaxSettled
    /\ TaskStep(i, "Relaying", "Relaying", 1)
    /\ UNCHANGED listening

\* the relay loop starts to await check_row_count (main.rs 293)
StartProbe(i) ==
    /\ i \in 1..Len(sessions)
    /\ sessions[i].settled < MaxSettled
    /\ TaskStep(i, "Relaying", "Probing", 0)
    /\ UNCHANGED listening

\* check_row_count returns and the chunk is forwarded or rejected
EndProbe(i) ==
    /\ TaskStep(i, "Probing", "Relaying", 1)
    /\ UNCHANGED listening

\* the relay loop breaks and handle_client returns Ok (main.rs 358-359)
Finish(i) ==
    /\ TaskStep(i, "Relaying", "Finished", 0)
    /\ UNCHANGED listening

\* some step of task i
Task(i) ==
    \/ \E ok \in BOOLEAN : SideConnect(i, ok)
    \/ \E ok \in BOOLEAN : RawConnect(i, ok)
    \/ SettleChunk(i)
    \/ StartProbe(i)
    \/ EndProbe(i)
    \/ Finish(i)

NextListener ==
    \/ Accept
    \/ AcceptError
    \/ \E i \in 1..MaxSessions, ok \in BOOLEAN : SideConnect(i, ok)
    \/ \E i \in 1..MaxSessions, ok \in BOOLEAN : RawConnect(i, ok)
    \/ \E i \in 1..MaxSessions : SettleChunk(i)
    \/ \E i \in 1..MaxSessions : StartProbe(i)
    \/ \E i \in 1..MaxSessions : EndProbe(i)
    \/ \E i \in 1..MaxSessions : Finish(i)

SpecListener ==
    InitListener /\ [][NextListener]_vars

---------------------------------------------------------------------------
(* What a session has done, read off its history.                          *)

\* the row count a succeeded probe reported: the first column of the
\* first row, zero for no rows
ReportedCount(res) ==
    IF res.rows = << >> THEN 0 ELSE res.rows[1]

\* the answered probes of client read r
ProbesOf(r) ==
    {i \in 1..Len(probes) : probes[i].read = r}

\* client read r had a query extracted and it was rejected in the end
Rejected(r) ==
    /\ Framed[clientReads[r]].some
    /\ \/ Verdict[clientReads[r], config.honeytokens].tag = "Block"
       \/ \E i \in ProbesOf(r) :
              \/ ~probes[i].res.ok
              \/ ReportedCount(probes[i].res) > config.max_rows

\* the db_stream.write_all calls that carry client read r
UpstreamWritesOf(r) ==
    {j \in 1..Len(dbWrites) : dbWrites[j].read = r}

\* the error frames written to the client for client read r
ErrorFramesOf(r) ==
    {j \in 1..Len(clientWrites) :
        clientWrites[j].kind = "error" /\ clientWrites[j].read = r}

\* client read r was handed whole and unchanged to db_stream.write_all
ForwardedWhole(r) ==
    \E j \in UpstreamWritesOf(r) : dbWrites[j].bytes = clientReads[r]

\* the last step was a rejection: it wrote an error frame
LastStepRejected ==
    lastIo.reply # "none"

\* the frame for "Internal error checking row count", byte by byte
InternalErrorFrame ==
    << 69, 0, 0, 0, 54, 83, 69, 82, 82, 79, 82, 0, 67, 52, 50, 48, 48, 48, 0,
       77, 73, 110, 116, 101, 114, 110, 97, 108, 32, 101, 114, 114, 111, 114,
       32, 99, 104, 101, 99, 107, 105, 110, 103, 32, 114, 111, 119, 32, 99,
       111, 117, 110, 116, 0, 0, 90, 0, 0, 0, 5, 73 >>

\* "would affect 501 rows (limit 500)"
Reason501Of500 ==
    << 119, 111, 117, 108, 100, 32, 97, 102, 102, 101, 99, 116, 32, 53, 48,
       49, 32, 114, 111, 119, 115, 32, 40, 108, 105, 109, 105, 116, 32, 53,
       48, 48, 41 >>

\* C1: a client chunk whose extracted query is rejected in the end (the
\* analyzer blocks it, the probe counts more than max_rows rows, or the
\* probe fails) is never written upstream, exactly one error frame is
\* written to the client for it, and the step that rejects it leaves the
\* session relaying.
C1_RejectedChunkDiscarded ==
    /\ \A r \in 1..Len(clientReads) :
           Rejected(r) =>
               /\ UpstreamWritesOf(r) = {}
               /\ Cardinality(ErrorFramesOf(r)) = 1
    /\ LastStepRejected => state = "Relaying"

\* a chunk was rejected and the session went on to read the next chunk
C1_Witness ==
    /\ Len(clientReads) = 2
    /\ Rejected(1)
    /\ \E i \in ProbesOf(1) : ReportedCount(probes[i].res) > config.max_rows
    /\ state = "Relaying"

\* the byte stream the database receives on the raw connection
RECURSIVE Concat(_)
Concat(chunks) ==
    IF chunks = << >> THEN << >>
    ELSE Head(chunks) \o Concat(Tail(chunks))

UpstreamStream ==
    Concat([j \in 1..Len(dbWrites) |->
               IF dbWrites[j].ok THEN dbWrites[j].bytes ELSE << >>])

\* a big-endian 32-bit length field
from_be_bytes(b) ==
    b[1] * 16777216 + b[2] * 65536 + b[3] * 256 + b[4]

\* the complete protocol messages of a byte stream, as the receiver
\* frames them: a tag byte, a length that counts itself, the body
RECURSIVE Messages(_)
Messages(s) ==
    IF Len(s) < 5 THEN << >>
    ELSE LET len == from_be_bytes(SubSeq(s, 2, 5))
         IN  IF len < 4 \/ Len(s) < 1 + len THEN << >>
             ELSE << SubSeq(s, 1, 1 + len) >> \o Messages(SliceFrom(s, 1 + len))

\* the query text of a simple-query message: its body up to the NUL
MessageText(m) ==
    SubSeq(m, 6, Len(m) - 1)

\* the query texts the relay logged as allowed
AllowedTexts ==
    {log[i].query : i \in {k \in 1..Len(log) : log[k].level = "ALLOW"}}

\* C2: every simple-query message the database receives was extracted by
\* the framer and allowed (directly, or after a probe within max_rows).
C2_EveryQueryIntercepted ==
    \A i \in 1..Len(Messages(UpstreamStream)) :
        LET m == Messages(UpstreamStream)[i]
        IN  m[1] = 81 /\ Utf8Valid(MessageText(m)) =>
                trim(MessageText(m)) \in AllowedTexts

\* C3: a succeeded probe with count c rejects the query, with the reason
\* "would affect c rows (limit max_rows)", exactly when c > max_rows;
\* otherwise the original chunk is written upstream and no error frame is.
C3_RowCountGate ==
    \A i \in 1..Len(probes) :
        LET r == probes[i].read
            c == ReportedCount(probes[i].res)
        IN  probes[i].res.ok =>
                /\ c > config.max_rows =>
                       /\ UpstreamWritesOf(r) = {}
                       /\ \E j \in ErrorFramesOf(r) :
                              clientWrites[j].bytes =
                                  create_simple_error_response(
                                      WouldAffect \o Display(c) \o RowsLimit
                                          \o Display(config.max_rows)
                                          \o CloseParen)
                       /\ c = 501 /\ config.max_rows = 500 =>
                              \E k \in 1..Len(log) :
                                  /\ log[k].read = r
                                  /\ log[k].detail = Reason501Of500
                /\ c <= config.max_rows =>
                       /\ ForwardedWhole(r)
                       /\ ErrorFramesOf(r) = {}

\* one session saw a probe answer exactly max_rows, forwarded, and a
\* probe answer max_rows + 1, rejected
C3_Witness ==
    /\ \E i \in 1..Len(probes) :
           /\ probes[i].res.ok
           /\ probes[i].res.rows = << config.max_rows >>
           /\ ForwardedWhole(probes[i].read)
    /\ \E i \in 1..Len(probes) :
           /\ probes[i].res.ok
           /\ ReportedCount(probes[i].res) = config.max_rows + 1
           /\ ErrorFramesOf(probes[i].read) # {}

\* the last step was the return of a failed probe
LastStepProbeFailed ==
    lastIo.op = "probe" /\ lastIo.res = "err"

\* C4: a failed probe is not read as a count of zero: the client is sent
\* the frame of "Internal error checking row count", the chunk is not
\* written upstream, and the session goes on relaying.
C4_ProbeFailureFailsClosed ==
    /\ \A i \in 1..Len(probes) :
           ~probes[i].res.ok =>
               /\ UpstreamWritesOf(probes[i].read) = {}
               /\ \E j \in ErrorFramesOf(probes[i].read) :
                      clientWrites[j].bytes = InternalErrorFrame
    /\ LastStepProbeFailed => state = "Relaying"

\* a probe failed and the session read and forwarded a later chunk
C4_Witness ==
    /\ \E i \in 1..Len(probes) : ~probes[i].res.ok /\ probes[i].read = 1
    /\ Len(clientReads) = 2
    /\ ForwardedWhole(2)
    /\ state = "Relaying"

\* the result that ends a session: end-of-stream or an error of a read,
\* or the failure of a forwarding write
Closing(io) ==
    \/ io.op \in {"client_read", "db_read"} /\ io.res \in {"eof", "err"}
    \/ io.fwd = "err"

\* C10: a step closes the session exactly when it consumed an
\* end-of-stream or an error of a read on either socket or a failed
\* forwarding write; a closed session reads and writes nothing further.
C10_SessionTermination ==
    [][/\ (state # "Closed" /\ state' = "Closed") <=> Closing(lastIo')
       /\ state = "Closed" => UNCHANGED relayVars]_vars

\* a session that rejected a query and had an error frame fail to be
\* written went on, and was closed by a failed forwarding write later
C10_Witness ==
    /\ state = "Closed"
    /\ lastIo.fwd = "err"
    /\ \E r \in 1..Len(clientReads) :
           Rejected(r) /\ \E j \in ErrorFramesOf(r) : ~clientWrites[j].ok

---------------------------------------------------------------------------
(* What the analyzer was given, read off the query text.                   *)

\* analyze_query has returned
Analyzed ==
    action # NoAction

\* the honeytoken h occurs in the text s under case-insensitive comparison
OccursIgnoringCase(s, h) ==
    \E off \in 0..Len(s) :
        /\ off + Len(h) <= Len(s)
        /\ \A j \in 1..Len(h) : ToLowerByte(s[off + j]) = ToLowerByte(h[j])

MentionsHoneytoken ==
    \E i \in 1..Len(config.honeytokens) :
        OccursIgnoringCase(query, config.honeytokens[i])

\* the parse of the query text
Parsed ==
    parse_sql(query)

\* a statement that makes the loop return: DROP, TRUNCATE, DELETE, or an
\* UPDATE with a parsed filter predicate
Triggers(statement) ==
    \/ statement.kind \in {"Drop", "Truncate", "Delete"}
    \/ statement.kind = "Update" /\ statement.selection

\* the position of the first statement that triggers a verdict, or 0
FirstTrigger(ast) ==
    LET at == {i \in 1..Len(ast) : Triggers(ast[i])}
    IN  IF at = {} THEN 0 ELSE CHOOSE i \in at : \A k \in at : i <= k

\* C5: a query text that contains a configured honeytoken, compared
\* without regard to letter case, is blocked as a honeytoken access,
\* whether or not it parses and whatever its statements are.
C5_HoneytokenPrecedence ==
    Analyzed /\ MentionsHoneytoken => action = Block(ReasonHoneytoken)

\* an unparseable text that names the honeytoken in another letter case
\* than the configured one was blocked
C5_Witness ==
    /\ Analyzed
    /\ MentionsHoneytoken
    /\ ~Parsed.ok
    /\ ~HoneytokenHitExact(query, config.honeytokens)
    /\ action = Block(ReasonHoneytoken)

\* C6: a parseable, honeytoken-free query whose statements include a DROP
\* or a TRUNCATE, at any position, is blocked.
C6_DropTruncateBlocked ==
    LET p == Parsed
    IN  /\ Analyzed
        /\ ~MentionsHoneytoken
        /\ p.ok
        /\ \E i \in 1..Len(p.ast) : p.ast[i].kind \in {"Drop", "Truncate"}
        => action.tag = "Block"

\* C7: in a parseable, honeytoken-free query whose first statement to
\* trigger a verdict is a DELETE, the result is Block("DELETE without
\* WHERE clause blocked") when the upper-cased text lacks " WHERE ", and
\* CheckRows of the derived probe otherwise; never Allow.
C7_DeleteRule ==
    LET p == Parsed
        first == FirstTrigger(p.ast)
    IN  /\ Analyzed
        /\ ~MentionsHoneytoken
        /\ p.ok
        /\ first # 0
        /\ p.ast[first].kind = "Delete"
        => /\ action.tag # "Allow"
           /\ IF contains(to_uppercase(query), WherePattern)
              THEN action = CheckRows(create_count_query_from_delete(query))
              ELSE action = Block(ReasonDelete)

\* a lower-case DELETE with a where clause, after an UPDATE that has no
\* filter and triggers nothing, was sent to the row-count gate
C7_Witness ==
    /\ Analyzed
    /\ ~MentionsHoneytoken
    /\ Parsed.ok
    /\ FirstTrigger(Parsed.ast) = 2
    /\ Parsed.ast[1].kind = "Update"
    /\ Parsed.ast[2].kind = "Delete"
    /\ ~contains(query, WherePattern)
    /\ action.tag = "CheckRows"

\* the keyword phrase of the statement a probe is derived from
ProbeKeyword ==
    IF Parsed.ast[FirstTrigger(Parsed.ast)].kind = "Delete"
    THEN PrefixDeleteFrom
    ELSE PrefixUpdate

\* the text after the first " WHERE ", in any letter case, of the query
FilterRemainder ==
    SliceFrom(query, find(to_uppercase(query), WherePattern) + Len(WherePattern))

\* C8: the probe derived from a DELETE or UPDATE text is "SELECT COUNT(*)
\* FROM <table> WHERE <remainder>" whenever the text contains " WHERE "
\* in any letter case, <remainder> being the original text after its
\* first occurrence; the probe has no filter only when there is none.
C8_ProbeKeepsFilter ==
    Analyzed /\ action.tag = "CheckRows" =>
        action.arg =
            SelectCountFrom
                \o extract_table_name_from_query(query, ProbeKeyword)
                \o (IF contains(to_uppercase(query), WherePattern)
                    THEN WherePattern \o FilterRemainder
                    ELSE << >>)

\* C9, as written: a query that is one UPDATE statement gives CheckRows
\* when the statement has a parsed filter predicate and Allow when it has
\* none.
C9_UpdateRuleAsWritten ==
    LET p == Parsed
    IN  Analyzed /\ p.ok /\ Len(p.ast) = 1 /\ p.ast[1].kind = "Update" =>
            IF p.ast[1].selection THEN action.tag = "CheckRows"
            ELSE action = Allow

\* C9, amended: in a parseable, honeytoken-free query, an UPDATE with a
\* parsed filter predicate that is the first statement to trigger a
\* verdict gives CheckRows of the probe derived by the "UPDATE" keyword;
\* an UPDATE with no filter predicate triggers nothing, so the result is
\* Allow when no other statement triggers a verdict.
C9_UpdateRule ==
    LET p == Parsed
        first == FirstTrigger(p.ast)
    IN  Analyzed /\ ~MentionsHoneytoken /\ p.ok =>
            /\ first # 0 /\ p.ast[first].kind = "Update" =>
                   action = CheckRows(create_count_query_from_update(query))
            /\ /\ first = 0
               /\ \E i \in 1..Len(p.ast) : p.ast[i].kind = "Update"
               => action = Allow

\* an UPDATE with no filter was passed over and the filtered UPDATE after
\* it was sent to the row-count gate
C9_Witness ==
    /\ Analyzed
    /\ ~MentionsHoneytoken
    /\ Parsed.ok
    /\ Len(Parsed.ast) = 2
    /\ Parsed.ast[1].kind = "Update" /\ ~Parsed.ast[1].selection
    /\ Parsed.ast[2].kind = "Update" /\ Parsed.ast[2].selection
    /\ action.tag = "CheckRows"

---------------------------------------------------------------------------
(* The two directions of the relay.                                        *)

\* client read r has reached its final verdict and was not rejected
Settled(r) ==
    ~Rejected(r) /\ pending.read # r

\* the client reads settled so far, in read order
SettledReads ==
    SelectSeq([r \in 1..Len(clientReads) |-> r], Settled)

\* every probe query the analyzer derives from a chunk of the model
ProbeQueries ==
    {Verdict[k].arg : k \in {v \in DOMAIN Verdict :
                                Verdict[v].tag = "CheckRows"}}

\* the chunks in which a derived probe query occurs
CarriesProbe ==
    [data \in DOMAIN Framed |-> \E sql \in ProbeQueries : contains(data, sql)]

\* C11: at every moment of a session the chunks handed to
\* db_stream.write_all are, in read order, exactly the client chunks that
\* were not rejected, each whole and unmodified and written before the
\* next client chunk is read (only the latest read can still await its
\* verdict); no derived probe query occurs in anything written to the
\* raw upstream socket.
C11_UpstreamIsSettledReads ==
    [](/\ [j \in 1..Len(dbWrites) |-> dbWrites[j].read] = SettledReads
       /\ \A j \in 1..Len(dbWrites) :
              /\ dbWrites[j].bytes = clientReads[dbWrites[j].read]
              /\ ~CarriesProbe[dbWrites[j].bytes]
       /\ pending.read \in {0, Len(clientReads)})

\* a rejected chunk was left out and the probed chunk after it was written
C11_Witness ==
    /\ Len(clientReads) = 2
    /\ Rejected(1)
    /\ Len(dbWrites) = 1
    /\ dbWrites[1].read = 2
    /\ dbWrites[1].bytes = clientReads[2]
    /\ ProbesOf(2) # {}

IsForward(w) ==
    w.kind = "forward"

\* the client_stream.write_all calls that relay an upstream chunk
ForwardedToClient ==
    SelectSeq(clientWrites, IsForward)

\* the verdict lines of the log: the trace the analyzer leaves
VerdictLines ==
    SelectSeq(log, LAMBDA l : l.level \in {"ALLOW", "BLOCK"})

QueryFrame(data) ==
    /\ Len(data) > 5
    /\ data[1] = 81
    /\ \E k \in 6..Len(data) :
           /\ data[k] = 0
           /\ \A i \in 6..(k - 1) : data[i] # 0
           /\ Utf8Valid(SubSeq(data, 6, k - 1))

\* the analyzer was called for client read r: a verdict was logged for
\* it, or a probe was answered or is awaited for it
Classified(r) ==
    \/ pending.read = r
    \/ ProbesOf(r) # {}
    \/ \E i \in 1..Len(log) :
           log[i].read = r /\ log[i].level \in {"ALLOW", "BLOCK"}

\* QueryFrame of every chunk of the model
StartsWithQueryFrame ==
    [data \in DOMAIN Framed |-> QueryFrame(data)]

\* C13: throughout a session a client chunk is classified exactly when
\* it starts with a readable simple-query frame; every other chunk is
\* handed whole and unmodified to db_stream.write_all with no verdict, no
\* probe and no error frame.
C13_NonQueryBypass ==
    [](\A r \in 1..Len(clientReads) :
           IF StartsWithQueryFrame[clientReads[r]] THEN Classified(r)
           ELSE /\ ~Classified(r)
                /\ ForwardedWhole(r)
                /\ Cardinality(UpstreamWritesOf(r)) = 1
                /\ ErrorFramesOf(r) = {})

\* two chunks tagged 'Q' bypassed the analyzer: one with no NUL, one
\* whose text is not valid UTF-8
C13_Witness ==
    /\ Len(clientReads) = 2
    /\ \A r \in 1..2 :
           /\ clientReads[r][1] = 81
           /\ Len(clientReads[r]) > 5
           /\ ~QueryFrame(clientReads[r])
           /\ ForwardedWhole(r)
    /\ \E r \in 1..2 : \A k \in 6..Len(clientReads[r]) : clientReads[r][k] # 0
    /\ \E r \in 1..2 : \E k \in 6..Len(clientReads[r]) : clientReads[r][k] = 255

---------------------------------------------------------------------------
(* The error frame, read back as a client reads it.                        *)

\* the NUL-terminated string that starts at index from of s
CString(s, from) ==
    LET rest == SubSeq(s, from, Len(s))
        n    == find(rest, << 0 >>)
    IN  IF n = -1 THEN rest ELSE SliceTo(rest, n)

\* the fields of an ErrorResponse body: a code byte and a NUL-terminated
\* string each, up to the terminating zero code
RECURSIVE ErrorFields(_)
ErrorFields(body) ==
    IF body = << >> \/ body[1] = 0 THEN << >>
    ELSE LET value == CString(body, 2)
         IN  << [code |-> body[1], value |-> value] >>
                 \o ErrorFields(SubSeq(body, Len(value) + 3, Len(body)))

\* the value of the 'M' field of an ErrorResponse message
DecodedMessage(m) ==
    LET fields == ErrorFields(SubSeq(m, 6, Len(m)))
        at     == {i \in 1..Len(fields) : fields[i].code = 77}
    IN  IF at = {} THEN << -1 >> ELSE fields[CHOOSE i \in at : TRUE].value

\* C14: the returned bytes are 'E', a big-endian length equal to the
\* length of the field block plus 4, the field block
\* "SERROR\0C42000\0M" + message + "\0\0", then 'Z', length 5, 'I'; read
\* back by the declared lengths they are an ErrorResponse whose severity
\* is ERROR, code 42000 and message the given one, followed exactly by
\* the ReadyForQuery message.
C14_ErrorFrameWellFormed ==
    response # << >> =>
        LET block    == ErrorFieldsHead \o errorText \o << 0, 0 >>
            declared == from_be_bytes(SubSeq(response, 2, 5))
            framed   == Messages(response)
        IN  /\ response[1] = 69
            /\ \A i \in 2..5 : response[i] \in 0..255
            /\ declared = Len(block) + 4
            /\ SubSeq(response, 6, 1 + declared) = block
            /\ SubSeq(response, 2 + declared, Len(response))
                   = << 90, 0, 0, 0, 5, 73 >>
            /\ Len(framed) = 2
            /\ framed[2] = << 90, 0, 0, 0, 5, 73 >>
            /\ DecodedMessage(framed[1]) = errorText
            /\ [i \in 1..3 |-> ErrorFields(SubSeq(framed[1], 6,
                                                  Len(framed[1])))[i].code]
                   = << 83, 67, 77 >>

\* a message long enough for the length field to need its second byte
\* was framed
C14_Witness ==
    /\ response # << >>
    /\ Len(errorText) = MaxMessageLen
    /\ response[4] = 1
    /\ DecodedMessage(Messages(response)[1]) = errorText

---------------------------------------------------------------------------
(* The session and its database.                                           *)

\* C15: while a session is open, neither direction of the relay is held
\* up by the other; in particular a chunk the database has sent can be
\* relayed to the client while a row-count probe is awaited.
C15_BothDirectionsServiced ==
    /\ state # "Closed"
    /\ backend.unread > 0
    /\ Len(dbReads) < MaxDbReads
    => ENABLED DbRelayed

\* the analyzed query has a DELETE statement with no filter in its
\* syntax tree and names no honeytoken
UnfilteredDelete(q) ==
    /\ ~HoneytokenHit(q, config.honeytokens)
    /\ parse_sql(q).ok
    /\ \E i \in 1..Len(parse_sql(q).ast) :
           /\ parse_sql(q).ast[i].kind = "Delete"
           /\ ~parse_sql(q).ast[i].selection

\* C17: a chunk whose extracted query is honeytoken-free and contains a
\* DELETE statement with no WHERE predicate in its syntax tree is never
\* written to db_stream, whatever else the text holds and whatever the
\* probe returns.
C17_UnfilteredDeleteNeverForwarded ==
    \A j \in 1..Len(dbWrites) :
        dbWrites[j].ok /\ Framed[dbWrites[j].bytes].some =>
            ~UnfilteredDelete(Framed[dbWrites[j].bytes].val)

\* C20: every query sent to the row-count gate gets its final outcome:
\* a session that awaits a probe eventually stops awaiting it.
C20_ProbeCompletes ==
    (state = "Probing") ~> (state # "Probing")

---------------------------------------------------------------------------
(* Rejections and the protocol streams.                                    *)

\* the bytes of upstream chunks written to the client before its j-th
\* write
RelayedBefore(j) ==
    Concat([k \in 1..(j - 1) |->
               IF IsForward(clientWrites[k]) /\ clientWrites[k].ok
               THEN clientWrites[k].bytes ELSE << >>])

\* the byte stream ends where a protocol message ends
AtMessageBoundary(stream) ==
    Concat(Messages(stream)) = stream

\* C18: every synthesized error frame is written to the client at a
\* message boundary of the upstream-to-client stream: the upstream bytes
\* relayed before it are whole protocol messages.
C18_ErrorFrameAtMessageBoundary ==
    \A j \in 1..Len(clientWrites) :
        clientWrites[j].kind = "error" /\ clientWrites[j].ok =>
            AtMessageBoundary(RelayedBefore(j))

\* C19: a rejection discards the rejected query message only: every
\* other protocol message that arrived in the same read is written
\* upstream.
C19_OnlyRejectedMessageDiscarded ==
    \A r \in 1..Len(clientReads) :
        Rejected(r) /\ ErrorFramesOf(r) # {} =>
            LET arrived == Messages(clientReads[r])
            IN  \A k \in 2..Len(arrived) :
                    \E j \in 1..Len(dbWrites) :
                        contains(dbWrites[j].bytes, arrived[k])

---------------------------------------------------------------------------
(* Sessions side by side.                                                  *)

\* C16: a step of one session, its failure included, changes no other
\* session, leaves the accept loop running and leaves the shared
\* configuration as it is; while the loop runs a further connection can
\* be accepted whatever the other sessions are doing, and a session that
\* relays can go on while others have failed or await a probe.
C16_SessionIsolation ==
    /\ [][\A i \in 1..Len(sessions) :
              Task(i) =>
                  /\ Len(sessions') = Len(sessions)
                  /\ \A j \in 1..Len(sessions) :
                         j # i => sessions'[j] = sessions[j]
                  /\ listening' = listening
                  /\ config' = config]_vars
    /\ [](/\ listening /\ Len(sessions) < MaxSessions => ENABLED Accept
          /\ \A j \in 1..Len(sessions) :
                 sessions[j].pc = "Relaying" => ENABLED Finish(j))

\* the first session failed, the second awaits its probe, and the third,
\* accepted like them, relays and has settled a chunk
C16_Witness ==
    /\ listening
    /\ Len(sessions) = 3
    /\ sessions[1].pc = "Failed"
    /\ sessions[2].pc = "Probing"
    /\ sessions[3].pc = "Relaying"
    /\ sessions[3].settled = 1

=============================================================================
